---------------------------- MODULE Spec2Model ----------------------------
(* Model of src/src/lib.rs of shopify-rust-api: the Shopify client         *)
(* descriptor (new, get_shop, set_api_key) and the API version registry    *)
(* (get_end_of_support_date, is_deprecated, api_version_to_string).        *)
(*                                                                         *)
(* A Rust String is a sequence of one-character strings.  A                *)
(* chrono::DateTime<Utc> is the record [panic, year, ordinal, secs, frac]: *)
(* the date as chrono's NaiveDate keeps it (year, day of the year), the    *)
(* time as NaiveTime keeps it (seconds of the day, nanoseconds); panic is  *)
(* set when Utc.ymd is given a date that does not exist.                   *)
EXTENDS Integers, Sequences, FiniteSets, TLC

VARIABLES
    desc,        \* the Shopify struct: shared_secret, api_key, query_url, rest_url, shop
    shop0,       \* history: the shop argument of Shopify::new
    key0,        \* history: the api_key argument of Shopify::new
    lastKey,     \* history: argument of the last set_api_key call with a non-empty argument, key0 if none
    succeeded,   \* history: some set_api_key call has returned Ok
    now,         \* the last reading of chrono::Utc::now()
    everTrue,    \* history: versions for which is_deprecated returned true since the clock last moved backwards
    ret          \* the last call: its operation, its arguments and its return value

vars == <<desc, shop0, key0, lastKey, succeeded, now, everTrue, ret>>

clientVars == <<desc, shop0, key0, lastKey, succeeded>>

versionVars == <<now, everTrue>>

-----------------------------------------------------------------------------
(* Bounds *)

MaxLen == 2

ClockSlack == 0

-----------------------------------------------------------------------------
(* Strings *)

Alphabet == {"a", "b"}

RECURSIVE Strings(_)
Strings(n) ==
    IF n = 0 THEN {<<>>}
    ELSE Strings(n - 1) \cup {Append(s, c) : s \in Strings(n - 1), c \in Alphabet}

None == [some |-> FALSE, value |-> <<>>]

Some(s) == [some |-> TRUE, value |-> s]

SecretValues == {None, Some(<<>>), Some(<<"s">>)}

is_empty(s) == Len(s) = 0

-----------------------------------------------------------------------------
(* chrono dates *)

IsLeap(y) == (y % 4 = 0 /\ y % 100 # 0) \/ y % 400 = 0

DaysInMonth(y, m) ==
    CASE m \in {1, 3, 5, 7, 8, 10, 12} -> 31
      [] m \in {4, 6, 9, 11} -> 30
      [] m = 2 -> IF IsLeap(y) THEN 29 ELSE 28

DaysInYear(y) == IF IsLeap(y) THEN 366 ELSE 365

RECURSIVE DaysBefore(_, _)
DaysBefore(y, m) == IF m <= 1 THEN 0 ELSE DaysBefore(y, m - 1) + DaysInMonth(y, m - 1)

PanicDate == [panic |-> TRUE, year |-> 0, ordinal |-> 0, secs |-> 0, frac |-> 0]

Ymd(y, m, d) ==
    IF m \in 1..12 /\ d >= 1 /\ d <= DaysInMonth(y, m)
    THEN [panic |-> FALSE, year |-> y, ordinal |-> DaysBefore(y, m) + d, secs |-> 0, frac |-> 0]
    ELSE PanicDate

AndHms(date, h, mi, s) ==
    IF date.panic \/ h \notin 0..23 \/ mi \notin 0..59 \/ s \notin 0..59
    THEN PanicDate
    ELSE [date EXCEPT !.secs = h * 3600 + mi * 60 + s]

DateTimeGt(a, b) ==
    IF a.year # b.year THEN a.year > b.year
    ELSE IF a.ordinal # b.ordinal THEN a.ordinal > b.ordinal
    ELSE IF a.secs # b.secs THEN a.secs > b.secs
    ELSE a.frac > b.frac

-----------------------------------------------------------------------------
(* The version registry *)

VersionOrder == <<"V2021_10", "V2022_01", "V2022_04", "V2022_07", "V2022_10", "V2023_01", "Unstable">>

Versions == {VersionOrder[i] : i \in 1..Len(VersionOrder)}

get_end_of_support_date_day31(api_version) ==
    CASE api_version = "V2021_10" -> AndHms(Ymd(2021, 10, 31), 23, 59, 59)
      [] api_version = "V2022_01" -> AndHms(Ymd(2022, 1, 31), 23, 59, 59)
      [] api_version = "V2022_04" -> AndHms(Ymd(2022, 4, 31), 23, 59, 59)
      [] api_version = "V2022_07" -> AndHms(Ymd(2022, 7, 31), 23, 59, 59)
      [] api_version = "V2022_10" -> AndHms(Ymd(2022, 10, 31), 23, 59, 59)
      [] api_version = "V2023_01" -> AndHms(Ymd(2023, 1, 31), 23, 59, 59)
      [] api_version = "Unstable" -> AndHms(Ymd(9999, 12, 31), 23, 59, 59)

get_end_of_support_date_year(api_version) ==
    CASE api_version = "V2021_10" -> AndHms(Ymd(2021, 10, 31), 23, 59, 59)
      [] api_version = "V2022_01" -> AndHms(Ymd(2021, 1, 31), 23, 59, 59)
      [] api_version = "V2022_04" -> AndHms(Ymd(2022, 4, 30), 23, 59, 59)
      [] api_version = "V2022_07" -> AndHms(Ymd(2022, 7, 31), 23, 59, 59)
      [] api_version = "V2022_10" -> AndHms(Ymd(2022, 10, 31), 23, 59, 59)
      [] api_version = "V2023_01" -> AndHms(Ymd(2023, 1, 31), 23, 59, 59)
      [] api_version = "Unstable" -> AndHms(Ymd(9999, 12, 31), 23, 59, 59)

get_end_of_support_date(api_version) ==
    CASE api_version = "V2021_10" -> AndHms(Ymd(2021, 10, 31), 23, 59, 59)
      [] api_version = "V2022_01" -> AndHms(Ymd(2022, 1, 31), 23, 59, 59)
      [] api_version = "V2022_04" -> AndHms(Ymd(2022, 4, 30), 23, 59, 59)
      [] api_version = "V2022_07" -> AndHms(Ymd(2022, 7, 31), 23, 59, 59)
      [] api_version = "V2022_10" -> AndHms(Ymd(2022, 10, 31), 23, 59, 59)
      [] api_version = "V2023_01" -> AndHms(Ymd(2023, 1, 31), 23, 59, 59)
      [] api_version = "Unstable" -> AndHms(Ymd(9999, 12, 31), 23, 59, 59)

is_deprecated_ge(api_version, clock) ==
    LET max_date == get_end_of_support_date(api_version)
    IN  ~DateTimeGt(max_date, clock)

is_deprecated(api_version, clock) ==
    LET max_date == get_end_of_support_date(api_version)
    IN  DateTimeGt(clock, max_date)

api_version_to_string_dup(api_version) ==
    CASE api_version = "V2021_10" -> <<"2", "0", "2", "1", "-", "1", "0">>
      [] api_version = "V2022_01" -> <<"2", "0", "2", "2", "-", "1", "0">>
      [] api_version = "V2022_04" -> <<"2", "0", "2", "2", "-", "0", "4">>
      [] api_version = "V2022_07" -> <<"2", "0", "2", "2", "-", "0", "7">>
      [] api_version = "V2022_10" -> <<"2", "0", "2", "2", "-", "1", "0">>
      [] api_version = "V2023_01" -> <<"2", "0", "2", "3", "-", "0", "1">>
      [] api_version = "Unstable" -> <<"u", "n", "s", "t", "a", "b", "l", "e">>

api_version_to_string(api_version) ==
    CASE api_version = "V2021_10" -> <<"2", "0", "2", "1", "-", "1", "0">>
      [] api_version = "V2022_01" -> <<"2", "0", "2", "2", "-", "0", "1">>
      [] api_version = "V2022_04" -> <<"2", "0", "2", "2", "-", "0", "4">>
      [] api_version = "V2022_07" -> <<"2", "0", "2", "2", "-", "0", "7">>
      [] api_version = "V2022_10" -> <<"2", "0", "2", "2", "-", "1", "0">>
      [] api_version = "V2023_01" -> <<"2", "0", "2", "3", "-", "0", "1">>
      [] api_version = "Unstable" -> <<"u", "n", "s", "t", "a", "b", "l", "e">>

-----------------------------------------------------------------------------
(* Readings of the wall clock: around every end-of-support instant *)

PlusSeconds(dt, k) ==
    LET s == dt.secs + k
    IN  IF s < 86400 THEN [dt EXCEPT !.secs = s]
        ELSE IF dt.ordinal = DaysInYear(dt.year)
             THEN [dt EXCEPT !.year = dt.year + 1, !.ordinal = 1, !.secs = s - 86400]
             ELSE [dt EXCEPT !.ordinal = dt.ordinal + 1, !.secs = s - 86400]

ClockValues ==
    {PlusSeconds(get_end_of_support_date(v), k) : v \in Versions, k \in (0 - ClockSlack)..ClockSlack}
    \cup {[get_end_of_support_date(v) EXCEPT !.frac = 1] : v \in Versions}

-----------------------------------------------------------------------------
(* The client descriptor *)

HTTPS == <<"h", "t", "t", "p", "s", ":", "/", "/">>

API_PATH == <<"/", "a", "d", "m", "i", "n", "/", "a", "p", "i", "/", "2", "0", "2", "0", "-", "0", "4", "/">>

GRAPHQL_JSON == <<"g", "r", "a", "p", "h", "q", "l", ".", "j", "s", "o", "n">>

New_pasted(shop, api_key, shared_secret) ==
    LET query_url == HTTPS \o shop \o API_PATH \o GRAPHQL_JSON
        rest_url == HTTPS \o shop \o API_PATH \o GRAPHQL_JSON
    IN  [shared_secret |-> shared_secret,
         api_key |-> api_key,
         query_url |-> query_url,
         rest_url |-> rest_url,
         shop |-> shop]

New(shop, api_key, shared_secret) ==
    LET query_url == HTTPS \o shop \o API_PATH \o GRAPHQL_JSON
        rest_url == HTTPS \o shop \o API_PATH
    IN  [shared_secret |-> shared_secret,
         api_key |-> api_key,
         query_url |-> query_url,
         rest_url |-> rest_url,
         shop |-> shop]

get_shop_key(self) == self.api_key

get_shop(self) == self.shop

ERR_EMPTY == "API key cannot be empty"

set_api_key_storeFirst(self, api_key) ==
    IF is_empty(api_key)
    THEN [ok |-> FALSE, err |-> ERR_EMPTY, self |-> [self EXCEPT !.api_key = api_key]]
    ELSE [ok |-> TRUE, err |-> "", self |-> [self EXCEPT !.api_key = api_key]]

set_api_key_notStored(self, api_key) ==
    IF is_empty(api_key)
    THEN [ok |-> FALSE, err |-> ERR_EMPTY, self |-> self]
    ELSE [ok |-> TRUE, err |-> "", self |-> self]

set_api_key_unchecked(self, api_key) ==
    [ok |-> TRUE, err |-> "", self |-> [self EXCEPT !.api_key = api_key]]

set_api_key(self, api_key) ==
    IF is_empty(api_key)
    THEN [ok |-> FALSE, err |-> ERR_EMPTY, self |-> self]
    ELSE [ok |-> TRUE, err |-> "", self |-> [self EXCEPT !.api_key = api_key]]

-----------------------------------------------------------------------------
(* The last call *)

NoDate == [panic |-> FALSE, year |-> 0, ordinal |-> 0, secs |-> 0, frac |-> 0]

NoCall ==
    [op |-> "none", ver |-> "none", arg |-> <<>>, ok |-> TRUE, err |-> "",
     str |-> <<>>, date |-> NoDate, bool |-> FALSE]

-----------------------------------------------------------------------------
(* The descriptor on its own *)

DocShopify ==
    New(<<"m", "y", "s", "h", "o", "p">>,
        <<"m", "y", "a", "p", "i", "k", "e", "y">>,
        Some(<<"m", "y", "s", "h", "a", "r", "e", "d", "s", "e", "c", "r", "e", "t">>))

InitClient ==
    /\ \E shop \in Strings(MaxLen), api_key \in Strings(MaxLen), shared_secret \in SecretValues :
          /\ desc = New(shop, api_key, shared_secret)
          /\ shop0 = shop
          /\ key0 = api_key
          /\ lastKey = api_key
    /\ succeeded = FALSE
    /\ now = get_end_of_support_date("V2021_10")
    /\ everTrue = {}
    /\ ret = NoCall

GetShop ==
    /\ ret' = [NoCall EXCEPT !.op = "get_shop", !.str = get_shop(desc)]
    /\ UNCHANGED <<clientVars, versionVars>>

SetApiKey(api_key) ==
    LET r == set_api_key(desc, api_key)
    IN  /\ desc' = r.self
        /\ ret' = [NoCall EXCEPT !.op = "set_api_key", !.arg = api_key, !.ok = r.ok, !.err = r.err]
        /\ lastKey' = IF api_key # <<>> THEN api_key ELSE lastKey
        /\ succeeded' = (succeeded \/ r.ok)
        /\ UNCHANGED <<shop0, key0, versionVars>>

NextClient ==
    \/ GetShop
    \/ \E api_key \in Strings(MaxLen) : SetApiKey(api_key)

SpecClient == InitClient /\ [][NextClient]_vars

-----------------------------------------------------------------------------
(* The version registry on its own *)

InitVersion ==
    /\ desc = DocShopify
    /\ shop0 = DocShopify.shop
    /\ key0 = DocShopify.api_key
    /\ lastKey = DocShopify.api_key
    /\ succeeded = FALSE
    /\ now \in ClockValues
    /\ everTrue = {}
    /\ ret = NoCall

GetEndOfSupportDate(api_version) ==
    /\ ret' = [NoCall EXCEPT !.op = "get_end_of_support_date", !.ver = api_version,
                             !.date = get_end_of_support_date(api_version)]
    /\ UNCHANGED <<clientVars, versionVars>>

IsDeprecated(api_version) ==
    \E clock \in ClockValues :
        LET r == is_deprecated(api_version, clock)
        IN  /\ now' = clock
            /\ ret' = [NoCall EXCEPT !.op = "is_deprecated", !.ver = api_version, !.bool = r]
            /\ everTrue' = (IF DateTimeGt(now, clock) THEN {} ELSE everTrue)
                              \cup (IF r THEN {api_version} ELSE {})
            /\ UNCHANGED clientVars

ApiVersionToString(api_version) ==
    /\ ret' = [NoCall EXCEPT !.op = "api_version_to_string", !.ver = api_version,
                             !.str = api_version_to_string(api_version)]
    /\ UNCHANGED <<clientVars, versionVars>>

NextVersion ==
    \/ \E api_version \in Versions : GetEndOfSupportDate(api_version)
    \/ \E api_version \in Versions : IsDeprecated(api_version)
    \/ \E api_version \in Versions : ApiVersionToString(api_version)

SpecVersion == InitVersion /\ [][NextVersion]_vars

-----------------------------------------------------------------------------
(* Properties of the descriptor, checked under SpecClient *)

\* C1: a call set_api_key("") returns the error "API key cannot be empty"
\* and leaves every field of the descriptor as it was before the call.
C1_EmptyKeyRejected ==
    [][(ret'.op = "set_api_key" /\ ret'.arg = <<>>)
          => (/\ ret'.ok = FALSE
              /\ ret'.err = "API key cannot be empty"
              /\ desc'.api_key = desc.api_key
              /\ desc'.shop = desc.shop
              /\ desc'.shared_secret = desc.shared_secret
              /\ desc'.query_url = desc.query_url
              /\ desc'.rest_url = desc.rest_url)]_vars

C1_Witness ==
    /\ ret.op = "set_api_key" /\ ret.arg = <<>> /\ ret.ok = FALSE
    /\ succeeded /\ desc.api_key = <<"a", "b">> /\ key0 = <<"b">>

\* C2: set_api_key with a non-empty argument succeeds and stores it; after
\* any sequence of calls the stored key is the argument of the last call
\* with a non-empty argument, or the constructor's key if there was none.
C2_LastNonEmptyKey ==
    /\ desc.api_key = lastKey
    /\ (ret.op = "set_api_key" /\ ret.arg # <<>>)
          => (ret.ok /\ ret.err = "" /\ desc.api_key = ret.arg)
    /\ ~succeeded => desc.api_key = key0

C2_Witness ==
    /\ ret.op = "set_api_key" /\ ret.arg = <<>>
    /\ succeeded /\ lastKey = <<"b", "a">> /\ key0 = <<"a">> /\ desc.api_key = <<"b", "a">>

\* C3: get_shop returns the shop string given to the constructor, whatever
\* get_shop and set_api_key calls came before.
C3_ShopIsConstructorArg ==
    /\ get_shop(desc) = shop0
    /\ ret.op = "get_shop" => ret.str = shop0

C3_Witness ==
    /\ ret.op = "get_shop" /\ ret.str = <<"a", "b">>
    /\ succeeded /\ desc.api_key # key0 /\ desc.api_key # shop0

\* C4: in every reachable state the query URL is "https://" + shop +
\* "/admin/api/2020-04/graphql.json" and the REST URL is "https://" + shop +
\* "/admin/api/2020-04/", with shop the constructor's argument.
C4_UrlsDerivedFromShop ==
    /\ desc.query_url =
         <<"h", "t", "t", "p", "s", ":", "/", "/">> \o shop0
         \o <<"/", "a", "d", "m", "i", "n", "/", "a", "p", "i", "/", "2", "0", "2", "0", "-", "0", "4",
              "/", "g", "r", "a", "p", "h", "q", "l", ".", "j", "s", "o", "n">>
    /\ desc.rest_url =
         <<"h", "t", "t", "p", "s", ":", "/", "/">> \o shop0
         \o <<"/", "a", "d", "m", "i", "n", "/", "a", "p", "i", "/", "2", "0", "2", "0", "-", "0", "4", "/">>

C4_Witness ==
    /\ shop0 = <<"b", "a">> /\ succeeded /\ desc.api_key # key0
    /\ ret.op = "set_api_key" /\ ret.ok = FALSE
    /\ Len(desc.rest_url) = 29 /\ Len(desc.query_url) = 41

\* C9: once a set_api_key call has succeeded the stored key is non-empty and
\* stays so; the stored key is empty only if the constructor was given an
\* empty key and no set_api_key call has succeeded.
C9_KeyNonEmptyAfterMutation ==
    /\ succeeded => desc.api_key # <<>>
    /\ desc.api_key = <<>> => (key0 = <<>> /\ ~succeeded)

C9_Witness ==
    /\ key0 = <<>> /\ succeeded /\ desc.api_key # <<>>
    /\ ret.op = "set_api_key" /\ ret.arg = <<>> /\ ret.ok = FALSE

-----------------------------------------------------------------------------
(* Properties of the version registry, checked under SpecVersion *)

AsTuple(dt) == <<dt.year, dt.ordinal, dt.secs, dt.frac>>

RECURSIVE LexLess(_, _)
LexLess(s, t) ==
    IF s = <<>> \/ t = <<>> THEN FALSE
    ELSE IF Head(s) # Head(t) THEN Head(s) < Head(t)
    ELSE LexLess(Tail(s), Tail(t))

StrictlyLater(a, b) == LexLess(AsTuple(b), AsTuple(a))

Sentinel9999 == [panic |-> FALSE, year |-> 9999, ordinal |-> 365, secs |-> 86399, frac |-> 0]

\* C5: is_deprecated(v) returns true exactly when the clock reading is
\* strictly later than get_end_of_support_date(v): false at the
\* end-of-support instant itself, and false for Unstable at every reading
\* up to and including 9999-12-31T23:59:59Z.
C5_DeprecatedIffLater ==
    ret.op = "is_deprecated" =>
        /\ ret.bool <=> StrictlyLater(now, get_end_of_support_date(ret.ver))
        /\ now = get_end_of_support_date(ret.ver) => ret.bool = FALSE
        /\ (ret.ver = "Unstable" /\ ~StrictlyLater(now, Sentinel9999)) => ret.bool = FALSE

C5_Witness ==
    /\ ret.op = "is_deprecated" /\ ret.ver = "V2022_04"
    /\ now = get_end_of_support_date("V2022_04") /\ ret.bool = FALSE
    /\ "V2022_01" \in everTrue

DigitVal(c) ==
    CASE c = "0" -> 0 [] c = "1" -> 1 [] c = "2" -> 2 [] c = "3" -> 3 [] c = "4" -> 4
      [] c = "5" -> 5 [] c = "6" -> 6 [] c = "7" -> 7 [] c = "8" -> 8 [] c = "9" -> 9

TagYear(v) ==
    LET t == api_version_to_string(v)
    IN  DigitVal(t[1]) * 1000 + DigitVal(t[2]) * 100 + DigitVal(t[3]) * 10 + DigitVal(t[4])

TagMonth(v) ==
    LET t == api_version_to_string(v)
    IN  DigitVal(t[6]) * 10 + DigitVal(t[7])

LastInstantOfMonth(y, m) ==
    [panic |-> FALSE, year |-> y, ordinal |-> DaysBefore(y, m) + DaysInMonth(y, m),
     secs |-> 86399, frac |-> 0]

FirstInstantAfterMonth(y, m) ==
    IF m = 12 THEN [panic |-> FALSE, year |-> y + 1, ordinal |-> 1, secs |-> 0, frac |-> 0]
    ELSE [panic |-> FALSE, year |-> y, ordinal |-> DaysBefore(y, m + 1) + 1, secs |-> 0, frac |-> 0]

\* C6: get_end_of_support_date returns a date for each of the seven members:
\* for a released member 23:59:59 UTC on the last day of the year and month
\* of its tag (V2022_04 -> 2022-04-30T23:59:59Z, V2023_01 ->
\* 2023-01-31T23:59:59Z), for Unstable 9999-12-31T23:59:59Z.
C6_EndOfSupportIsLastInstant ==
    ret.op = "get_end_of_support_date" =>
        /\ ret.date.panic = FALSE
        /\ ret.ver # "Unstable" =>
              /\ ret.date = LastInstantOfMonth(TagYear(ret.ver), TagMonth(ret.ver))
              /\ PlusSeconds(ret.date, 1) = FirstInstantAfterMonth(TagYear(ret.ver), TagMonth(ret.ver))
        /\ ret.ver = "V2022_04" =>
              ret.date = [panic |-> FALSE, year |-> 2022, ordinal |-> 120, secs |-> 86399, frac |-> 0]
        /\ ret.ver = "V2023_01" =>
              ret.date = [panic |-> FALSE, year |-> 2023, ordinal |-> 31, secs |-> 86399, frac |-> 0]
        /\ ret.ver = "Unstable" => ret.date = Sentinel9999

C6_Witness ==
    /\ ret.op = "get_end_of_support_date" /\ ret.ver = "V2022_04"
    /\ ret.date.year = 2022 /\ ret.date.ordinal = 120 /\ ret.date.secs = 86399

\* C7: the doc example of is_deprecated holds whenever the function is
\* called: is_deprecated(V2021_10) returns true and is_deprecated(V2023_01)
\* returns false.
C7_DocExampleHolds ==
    ret.op = "is_deprecated" =>
        /\ ret.ver = "V2021_10" => ret.bool = TRUE
        /\ ret.ver = "V2023_01" => ret.bool = FALSE

ReleaseOf(v) ==
    CASE v = "V2021_10" -> <<2021, 10>>
      [] v = "V2022_01" -> <<2022, 1>>
      [] v = "V2022_04" -> <<2022, 4>>
      [] v = "V2022_07" -> <<2022, 7>>
      [] v = "V2022_10" -> <<2022, 10>>
      [] v = "V2023_01" -> <<2023, 1>>

Digit(n) == <<"0", "1", "2", "3", "4", "5", "6", "7", "8", "9">>[n + 1]

YearMonthTag(y, m) ==
    <<Digit(y \div 1000), Digit((y \div 100) % 10), Digit((y \div 10) % 10), Digit(y % 10),
      "-", Digit(m \div 10), Digit(m % 10)>>

\* C8: api_version_to_string maps every member to a non-empty string, no
\* two members to the same string, each released member to its "YYYY-MM"
\* tag and Unstable to "unstable".
C8_TagsUniqueNonEmpty ==
    ret.op = "api_version_to_string" =>
        /\ Len(ret.str) > 0
        /\ \A w \in Versions \ {ret.ver} : api_version_to_string(w) # ret.str
        /\ ret.ver # "Unstable" => ret.str = YearMonthTag(ReleaseOf(ret.ver)[1], ReleaseOf(ret.ver)[2])
        /\ ret.ver = "V2021_10" => ret.str = <<"2", "0", "2", "1", "-", "1", "0">>
        /\ ret.ver = "Unstable" => ret.str = <<"u", "n", "s", "t", "a", "b", "l", "e">>

C8_Witness ==
    /\ ret.op = "api_version_to_string" /\ ret.ver = "V2022_01"
    /\ ret.str = <<"2", "0", "2", "2", "-", "0", "1">>

\* C10: while the clock does not move backwards, a member for which
\* is_deprecated has returned true gets true from every later call; and at
\* any one clock reading a deprecated member has every member declared
\* before it deprecated too, the end-of-support instants being strictly
\* increasing in declaration order.
C10_DeprecationPermanentAndOrdered ==
    /\ (ret.op = "is_deprecated" /\ ret.ver \in everTrue) => ret.bool = TRUE
    /\ \A i, j \in 1..Len(VersionOrder) :
          i < j =>
             /\ is_deprecated(VersionOrder[j], now) => is_deprecated(VersionOrder[i], now)
             /\ StrictlyLater(get_end_of_support_date(VersionOrder[j]),
                              get_end_of_support_date(VersionOrder[i]))

C10_Witness ==
    /\ ret.op = "is_deprecated" /\ ret.ver = "V2021_10" /\ ret.bool = TRUE
    /\ {"V2021_10", "V2022_01", "V2022_10"} \subseteq everTrue
    /\ now = get_end_of_support_date("V2023_01")

=============================================================================
